---- MODULE Spec2Model ----
(***************************************************************************)
(* A model of gdalmethods/gdalmethods.py: split_extent, tile_raster,       *)
(* tile_single, to_raster, Map_Values (map_file, map_files, _map_single,   *)
(* _map_try), gdal_options, warp and rasterize.                            *)
(*                                                                         *)
(* Coordinates are integers (origins and pixel sizes are drawn from        *)
(* integers, on which the float arithmetic of the source is exact).        *)
(* An extent is the 4-tuple <<xmin, ymin, xmax, ymax>> (source line 483).  *)
(***************************************************************************)
EXTENDS Integers, Sequences, FiniteSets, TLC

(***************************************************************************)
(* Bounds of the model.                                                    *)
(***************************************************************************)
MaxDim == 4
MaxN == 10
MaxCpu == 2
MaxFiles == 3
MaxRuns == 2
MaxChunk == 99

VARIABLES
    raster_file,   \* the raster: [nx, ny, x0, dx, y0, dy] (width, height, geotransform)
    n,             \* the requested number of tiles (n of split_extent, ntiles of tile_raster)
    numpy_ragged,  \* TRUE: np.array builds an object array from chunks of unequal
                   \* length (numpy < 1.24); FALSE: it raises ValueError
    pc,            \* position of the calling process: "idle", "split", "pool",
                   \* "returned", "raised"; after a function called on its own:
                   \* "named", "mapped", "called", "map_file_raised"
    extents,       \* what split_extent returned: [err, val]
    src_files,     \* the source rasters handed to Map_Values.map_files
    fn_in,         \* the arguments of a function called on its own
    fn_out,        \* what that call returned, or how far it has come
    ncpu,          \* the size of the worker pool
    run,           \* how many times the batch has been called
    args,          \* the argument tuples handed to pool.imap, in job order
    task,          \* per job: "queued", "check", "warp" (tiling), "open", "write"
                   \* (mapping), "done", "killed"
    results,       \* per job: what the worker sent back ("pending" until then)
    yielded,       \* the jobs whose result the iterator has handed to the parent
    tfiles,        \* the list the parent builds from the iterator
    files,         \* the file system: path -> content
    calls,         \* per job: how often the engine was invoked in this run
    outcome,       \* per job: what happened ("none", "Success", "Skipped", "Failed";
                   \* in mapping also "Unreadable", "WriteFailed")
    overtaken,     \* TRUE once a job finished before a job of lower index
    wrote,         \* the jobs whose engine call wrote to the job's path in this run
    prev           \* the previous run: whether it returned, what it returned, and
                   \* the files it left, which are the files this run began with

vars == <<raster_file, n, numpy_ragged, src_files, fn_in, fn_out, pc, extents, ncpu, run, args, task,
          results, yielded, tfiles, files, calls, outcome, overtaken, wrote, prev>>

inputs == <<raster_file, n, numpy_ragged, src_files, fn_in, fn_out, ncpu>>

batch == <<run, args, task, results, yielded, tfiles, files, calls, outcome, overtaken,
           wrote, prev>>

(***************************************************************************)
(* Helpers on sequences and sets of integers.                              *)
(***************************************************************************)
Range(s) == {s[i] : i \in DOMAIN s}

min(S) == CHOOSE m \in S : \A e \in S : m <= e

max(S) == CHOOSE m \in S : \A e \in S : m >= e

Least(a, b) == IF a <= b THEN a ELSE b

Ok(v) == [err |-> "none", val |-> v]

Raise(e) == [err |-> e, val |-> <<>>]

(***************************************************************************)
(* nc = np.sqrt(n).  Only int(nc) is ever taken of it (inside              *)
(* np.array_split), so the float is kept as its integer part, or as NaN    *)
(* for a negative n.                                                       *)
(***************************************************************************)
sqrt(m) ==
    IF m < 0 THEN [nan |-> TRUE, floor |-> 0]
    ELSE [nan |-> FALSE,
          floor |-> CHOOSE k \in 0..m : k * k <= m /\ (k + 1) * (k + 1) > m]

(***************************************************************************)
(* np.array_split(ary, nc) with a scalar nc: Nsections = int(nc), a        *)
(* ValueError when it is not positive (or nc is NaN); divmod(len, Nsections)*)
(* gives the first `extras` chunks one element more than the others.       *)
(***************************************************************************)
\* A variant that takes a count below one for one section instead of raising.
array_split_clamped(ary, nc) ==
    LET Nsections == IF nc.nan \/ nc.floor <= 0 THEN 1 ELSE nc.floor
        Ntotal == Len(ary)
        Neach == Ntotal \div Nsections
        extras == Ntotal % Nsections
        size(i) == IF i <= extras THEN Neach + 1 ELSE Neach
        start(i) == (i - 1) * Neach + Least(i - 1, extras)
    IN Ok([i \in 1..Nsections |-> SubSeq(ary, start(i) + 1, start(i) + size(i))])

array_split(ary, nc) ==
    IF nc.nan \/ nc.floor <= 0 THEN Raise("ValueError")
    ELSE LET Nsections == nc.floor
             Ntotal == Len(ary)
             Neach == Ntotal \div Nsections
             extras == Ntotal % Nsections
             size(i) == IF i <= extras THEN Neach + 1 ELSE Neach
             start(i) == (i - 1) * Neach + Least(i - 1, extras)
         IN Ok([i \in 1..Nsections |-> SubSeq(ary, start(i) + 1, start(i) + size(i))])

(***************************************************************************)
(* np.array(chunks): chunks of equal length make a 2-d array; chunks of    *)
(* unequal length make an object array or raise, by the numpy version.     *)
(***************************************************************************)
np_array(chunks, ragged_ok) ==
    IF \A i, j \in DOMAIN chunks : Len(chunks[i]) = Len(chunks[j]) THEN Ok(chunks)
    ELSE IF ragged_ok THEN Ok(chunks)
    ELSE Raise("ValueError")

(***************************************************************************)
(* sides = lambda x: [min(x), max(x)], mapped over the chunks; min of an   *)
(* empty chunk raises ValueError.                                          *)
(***************************************************************************)
sides(x) == <<min(Range(x)), max(Range(x))>>

map_sides(chunks) ==
    IF \E i \in DOMAIN chunks : Len(chunks[i]) = 0 THEN Raise("ValueError")
    ELSE Ok([i \in DOMAIN chunks |-> sides(chunks[i])])

(***************************************************************************)
(* The axis of one dimension: x, or y, of the first corner of each pixel.  *)
(***************************************************************************)
coords(origin, res, count) == [i \in 1..count |-> origin + res * (i - 1)]

(***************************************************************************)
(* split_extent(raster_file, n): x chunks outermost, y chunks innermost,   *)
(* each extent [xmin, ymin, xmax, ymax].  The x axis is split first, so    *)
(* its error is the one raised.                                            *)
(***************************************************************************)
split_extent(r, m, ragged_ok) ==
    LET nc == sqrt(m)
        xsplit == array_split(coords(r.x0, r.dx, r.nx), nc)
        ysplit == array_split(coords(r.y0, r.dy, r.ny), nc)
    IN IF xsplit.err # "none" THEN xsplit
       ELSE IF np_array(xsplit.val, ragged_ok).err # "none" THEN Raise("ValueError")
       ELSE IF ysplit.err # "none" THEN ysplit
       ELSE IF np_array(ysplit.val, ragged_ok).err # "none" THEN Raise("ValueError")
       ELSE LET xext == map_sides(xsplit.val)
                yext == map_sides(ysplit.val)
            IN IF xext.err # "none" THEN xext
               ELSE IF yext.err # "none" THEN yext
               ELSE Ok([e \in 1..(Len(xext.val) * Len(yext.val)) |->
                          LET xex == xext.val[((e - 1) \div Len(yext.val)) + 1]
                              yex == yext.val[((e - 1) % Len(yext.val)) + 1]
                          IN <<xex[1], yex[1], xex[2], yex[2]>>])

(***************************************************************************)
(* The state before any batch has been called.                             *)
(***************************************************************************)
NoFiles == [p \in {} |-> 0]

NoBatch ==
    /\ run = 0
    /\ args = <<>>
    /\ task = <<>>
    /\ results = <<>>
    /\ yielded = {}
    /\ tfiles = <<>>
    /\ files = NoFiles
    /\ calls = <<>>
    /\ outcome = <<>>
    /\ overtaken = FALSE
    /\ wrote = {}
    /\ prev = [returned |-> FALSE, tfiles |-> <<>>, files |-> NoFiles]

(***************************************************************************)
(* The inputs of split_extent.                                             *)
(***************************************************************************)
PixelWidths == {1, 25}

PixelHeights == {-25, -1, 25}

Rasters ==
    [nx : 2..MaxDim, ny : 2..MaxDim, x0 : {0}, dx : PixelWidths,
     y0 : {0, 100}, dy : PixelHeights]

InitSplit ==
    /\ raster_file \in Rasters
    /\ n \in -1..MaxN
    /\ numpy_ragged \in BOOLEAN
    /\ src_files = <<>>
    /\ fn_in = <<>>
    /\ fn_out = <<>>
    /\ ncpu = 1
    /\ pc = "idle"
    /\ extents = Ok(<<>>)
    /\ NoBatch

SplitExtent ==
    /\ pc = "idle"
    /\ extents' = split_extent(raster_file, n, numpy_ragged)
    /\ pc' = "split"
    /\ UNCHANGED <<inputs, batch>>

NextSplit == SplitExtent

SpecSplit == InitSplit /\ [][NextSplit]_vars

(***************************************************************************)
(* What the claims about split_extent speak of.                            *)
(***************************************************************************)
\* The raster's full extent: from the origin corner to the far corner, one
\* pixel size beyond the last pixel's first corner.
FullExtent(r) ==
    <<Least(r.x0, r.x0 + r.nx * r.dx), Least(r.y0, r.y0 + r.ny * r.dy),
      max({r.x0, r.x0 + r.nx * r.dx}), max({r.y0, r.y0 + r.ny * r.dy})>>

\* The rectangle of pixel (i, j), as an extent.
PixelExtent(r, i, j) ==
    <<Least(r.x0 + r.dx * (i - 1), r.x0 + r.dx * i),
      Least(r.y0 + r.dy * (j - 1), r.y0 + r.dy * j),
      max({r.x0 + r.dx * (i - 1), r.x0 + r.dx * i}),
      max({r.y0 + r.dy * (j - 1), r.y0 + r.dy * j})>>

Inside(a, b) == a[1] >= b[1] /\ a[2] >= b[2] /\ a[3] <= b[3] /\ a[4] <= b[4]

InteriorsMeet(a, b) == a[1] < b[3] /\ b[1] < a[3] /\ a[2] < b[4] /\ b[2] < a[4]

CeilSqrt(m) == CHOOSE k \in 0..m : k * k >= m /\ (k = 0 \/ (k - 1) * (k - 1) < m)

SplitReturned == pc = "split" /\ extents.err = "none"

\* C7: for every n >= 1, split_extent returns exactly ceil(sqrt(n))^2 extents.
C7_CountIsCeilSqrtSquared ==
    (pc = "split" /\ n >= 1) =>
        /\ extents.err = "none"
        /\ Len(extents.val) = CeilSqrt(n) * CeilSqrt(n)

\* C8: for every n >= 1 the returned extents partition the raster's full
\* extent: every extent lies inside it, every pixel of the raster lies inside
\* some extent (no gap, nothing missing at the edges), the interiors are
\* pairwise disjoint, and for n = 1 the one extent is the full extent.
C8_ExtentsPartitionFullExtent ==
    (SplitReturned /\ n >= 1) =>
        LET e == extents.val
            full == FullExtent(raster_file)
        IN /\ \A i \in DOMAIN e : Inside(e[i], full)
           /\ \A i \in 1..raster_file.nx, j \in 1..raster_file.ny :
                  \E k \in DOMAIN e : Inside(PixelExtent(raster_file, i, j), e[k])
           /\ \A i, j \in DOMAIN e : i # j => ~InteriorsMeet(e[i], e[j])
           /\ (n = 1 => e = <<full>>)

\* C9: the extents are [xmin, ymin, xmax, ymax], x chunk by x chunk, the y
\* chunks of one x chunk in increasing y; the full extent {0,0,100,100} with
\* n = 4 gives [{0,0,50,50},{0,50,50,100},{50,0,100,50},{50,50,100,100}].
C9_RowMajorIncreasingY ==
    SplitReturned =>
        LET e == extents.val
            k == sqrt(n).floor
        IN /\ \A i \in DOMAIN e : e[i][1] <= e[i][3] /\ e[i][2] <= e[i][4]
           /\ \A i, j \in DOMAIN e :
                  /\ ((i - 1) \div k < (j - 1) \div k) => e[i][1] < e[j][1]
                  /\ ((i - 1) \div k = (j - 1) \div k /\ i < j) =>
                         e[i][1] = e[j][1] /\ e[i][2] < e[j][2]
           /\ (FullExtent(raster_file) = <<0, 0, 100, 100>> /\ n = 4) =>
                  e = << <<0, 0, 50, 50>>, <<0, 50, 50, 100>>,
                         <<50, 0, 100, 50>>, <<50, 50, 100, 100>> >>

(***************************************************************************)
(* tile_single: the output path of a job.  A job is the tuple              *)
(* <<extent, rfile, chunk, outfolder>> (arg[0] .. arg[3]); a file name is  *)
(* the sequence of its parts between the dots.                             *)
(***************************************************************************)
RECURSIVE digits(_)
digits(i) == IF i < 10 THEN <<i>> ELSE Append(digits(i \div 10), i % 10)

\* "{:d}".format(chunk): a variant without the padding.
format_d(chunk) == digits(chunk)

\* "{:02d}".format(chunk): at least two digits, zero-padded on the left.
format_02d(chunk) ==
    LET d == digits(chunk) IN IF Len(d) < 2 THEN <<0>> \o d ELSE d

\* os.path.basename(rfile).split(".")[0]
outbase(rfile) == rfile.name[1]

\* os.path.join(outfolder, outbase + "_" + chunk + ".tif"): the file name is
\* the concatenation, kept as the sequence of its pieces (the base, the
\* underscore, one piece per digit, the extension)
outfile(arg) ==
    [folder |-> arg[4],
     name |-> <<outbase(arg[2]), "_">> \o format_02d(arg[3]) \o <<".tif">>]

exists(path, fs) == path \in DOMAIN fs

\* if not os.path.exists(outfile): the engine is called
\* Variants: without the test of the path; and with a test that also sends a
\* partly written file back to the engine.
always_warp(path, fs) == TRUE

warp_unless_whole(path, fs) == ~exists(path, fs) \/ ~fs[path].whole

needs_warp(path, fs) == ~exists(path, fs)

(***************************************************************************)
(* The engine: gdalwarp -te extent rfile outfile, run as a child process.  *)
(* It writes the tile, or fails and leaves nothing, or fails and leaves a  *)
(* part of the tile.                                                       *)
(***************************************************************************)
EngineOutcomes == {"ok", "fail", "fail_partial"}

gdalwarp(fs, path, te, o) ==
    IF o = "fail" THEN fs
    ELSE (path :> [te |-> te, whole |-> (o = "ok")]) @@ fs

\* subprocess.check_call, for comparison, raises on a non-zero exit status;
\* subprocess.call returns the exit status and raises on none.
check_call(o) == [raised |-> o # "ok", rc |-> IF o = "ok" THEN 0 ELSE 1]

sp_call(o) == [raised |-> FALSE, rc |-> IF o = "ok" THEN 0 ELSE 1]

\* line 566: return outfile, whatever the exit status was
tile_single_return(path, called) ==
    IF called.raised THEN Raise("CalledProcessError") ELSE Ok(path)

(***************************************************************************)
(* The pool: ncpu workers take the queued jobs in index order, one job per *)
(* worker at a time; pool.imap's iterator hands the results to the parent  *)
(* in index order, and raises a job's exception in the parent.             *)
(***************************************************************************)
Pending == [err |-> "pending", val |-> <<>>]

Jobs == DOMAIN args

\* the jobs a worker holds: taken from the queue and not yet sent back
Running == {j \in Jobs : task[j] \notin {"queued", "done", "killed"}}

\* pool.imap_unordered, for comparison, hands over any result that has arrived.
imap_unordered_next(res, done) == {i \in DOMAIN res : i \notin done /\ res[i] # Pending}

imap_next(res, done) ==
    {i \in DOMAIN res : i = Cardinality(done) + 1 /\ res[i] # Pending}

\* a worker sends the result of job j back
Finish(j, res, oc) ==
    /\ task' = [task EXCEPT ![j] = "done"]
    /\ results' = [results EXCEPT ![j] = res]
    /\ outcome' = [outcome EXCEPT ![j] = oc]
    /\ overtaken' = (overtaken \/ \E i \in Jobs : i < j /\ task[i] # "done")

(***************************************************************************)
(* tile_raster                                                             *)
(***************************************************************************)
RFile == [dir |-> "data", name |-> <<"dem", "tif">>]

OutFolder == "tiles"

\* lines 512-514: the default folder is the raster's path without its
\* extension, plus "_tiles"
tile_folder(rfile, out_folder) ==
    IF out_folder = "" THEN <<rfile.dir, rfile.name[1], "_tiles">> ELSE out_folder

\* lines 511-524: make the folder, split the extent, bundle the arguments
TileRaster ==
    /\ pc \in {"idle", "returned", "raised"}
    /\ run < MaxRuns
    /\ run' = run + 1
    /\ prev' = [returned |-> (pc = "returned"), tfiles |-> tfiles, files |-> files]
    /\ extents' = split_extent(raster_file, n, numpy_ragged)
    /\ args' = [i \in DOMAIN extents'.val |->
                  <<extents'.val[i], RFile, i - 1, tile_folder(RFile, OutFolder)>>]
    /\ pc' = IF extents'.err = "none" THEN "pool" ELSE "raised"
    /\ task' = [i \in DOMAIN args' |-> "queued"]
    /\ results' = [i \in DOMAIN args' |-> Pending]
    /\ calls' = [i \in DOMAIN args' |-> 0]
    /\ outcome' = [i \in DOMAIN args' |-> "none"]
    /\ yielded' = {}
    /\ tfiles' = <<>>
    /\ overtaken' = FALSE
    /\ wrote' = {}
    /\ UNCHANGED <<inputs, files>>

\* an idle worker takes the next job of the queue
PoolTake(j) ==
    /\ pc = "pool"
    /\ task[j] = "queued"
    /\ \A i \in Jobs : i < j => task[i] # "queued"
    /\ Cardinality(Running) < ncpu
    /\ task' = [task EXCEPT ![j] = "check"]
    /\ UNCHANGED <<inputs, pc, extents, run, args, results, yielded, tfiles, files,
                   calls, outcome, overtaken, wrote, prev>>

\* lines 551-558: the path is built and tested; an existing file ends the job
TileCheck(j) ==
    /\ pc = "pool"
    /\ task[j] = "check"
    /\ IF needs_warp(outfile(args[j]), files)
       THEN /\ task' = [task EXCEPT ![j] = "warp"]
            /\ UNCHANGED <<results, outcome, overtaken>>
       ELSE Finish(j, Ok(outfile(args[j])), "Skipped")
    /\ UNCHANGED <<inputs, pc, extents, run, args, yielded, tfiles, files, calls,
                   wrote, prev>>

\* lines 559-566: the engine runs, and the path is returned
TileWarp(j) ==
    /\ pc = "pool"
    /\ task[j] = "warp"
    /\ \E o \in EngineOutcomes :
         /\ files' = gdalwarp(files, outfile(args[j]), args[j][1], o)
         /\ wrote' = IF o = "fail" THEN wrote ELSE wrote \cup {j}
         /\ Finish(j, tile_single_return(outfile(args[j]), sp_call(o)),
                   IF o = "ok" THEN "Success" ELSE "Failed")
    /\ calls' = [calls EXCEPT ![j] = @ + 1]
    /\ UNCHANGED <<inputs, pc, extents, run, args, yielded, tfiles, prev>>

\* lines 529-531: the parent takes the next result of the iterator; a job's
\* exception is raised here, and leaving the with block terminates the pool
TileNext ==
    /\ pc = "pool"
    /\ \E i \in imap_next(results, yielded) :
         /\ yielded' = yielded \cup {i}
         /\ IF results[i].err = "none"
            THEN /\ tfiles' = Append(tfiles, results[i].val)
                 /\ UNCHANGED <<pc, task>>
            ELSE /\ pc' = "raised"
                 /\ task' = [j \in Jobs |-> IF task[j] = "done" THEN "done" ELSE "killed"]
                 /\ UNCHANGED tfiles
    /\ UNCHANGED <<inputs, extents, run, args, results, files, calls, outcome,
                   overtaken, wrote, prev>>

\* line 533: the iterator is exhausted, the list is returned
TileReturn ==
    /\ pc = "pool"
    /\ Cardinality(yielded) = Len(args)
    /\ pc' = "returned"
    /\ UNCHANGED <<inputs, extents, batch>>

TileRasters ==
    {[nx |-> 4, ny |-> 4, x0 |-> 0, dx |-> 25, y0 |-> 100, dy |-> -25],
     [nx |-> 3, ny |-> 2, x0 |-> 0, dx |-> 1, y0 |-> 0, dy |-> -1]}

\* tile counts that are rejected (-1, 0), make one tile (1, 3) and make four (4)
TileCounts == {-1, 0, 1, 3, 4}

Init ==
    /\ raster_file \in TileRasters
    /\ n \in TileCounts
    /\ numpy_ragged \in BOOLEAN
    /\ src_files = <<>>
    /\ fn_in = <<>>
    /\ fn_out = <<>>
    /\ ncpu \in 1..MaxCpu
    /\ pc = "idle"
    /\ extents = Ok(<<>>)
    /\ NoBatch

Next ==
    \/ TileRaster
    \/ \E j \in Jobs : PoolTake(j)
    \/ \E j \in Jobs : TileCheck(j)
    \/ \E j \in Jobs : TileWarp(j)
    \/ TileNext
    \/ TileReturn

Spec == Init /\ [][Next]_vars

(***************************************************************************)
(* What the claims about tile_raster and tile_single speak of.             *)
(***************************************************************************)
Returned == pc = "returned"

PathOf(j) == outfile(args[j])

\* C1: whatever the order in which the workers finish, the list tile_raster
\* builds holds the result of job i at place i, and on return it holds one
\* element per job.
C1_ResultsInJobOrder ==
    /\ \A i \in DOMAIN tfiles :
           /\ i \in Jobs
           /\ args[i][3] = i - 1
           /\ tfiles[i] = results[i].val
           /\ tfiles[i] = PathOf(i)
    /\ Returned => Len(tfiles) = Len(args)

C1_Witness == Returned /\ overtaken /\ Len(tfiles) = 4

\* C2: a failed engine call of one job does not abort the run: tile_raster
\* raises only before any job exists, no job is killed, and on return every
\* job was executed, has a result, and has its output file unless its own
\* engine call failed.
C2_FailureDoesNotAbort ==
    /\ pc = "raised" => args = <<>>
    /\ \A j \in Jobs : task[j] # "killed"
    /\ Returned =>
           /\ Len(tfiles) = Len(args)
           /\ \A j \in Jobs :
                  /\ task[j] = "done"
                  /\ outcome[j] # "none"
                  /\ outcome[j] # "Skipped" => calls[j] = 1
                  /\ outcome[j] # "Failed" => PathOf(j) \in DOMAIN files
                  /\ outcome[j] = "Success" => files[PathOf(j)].whole

C2_Witness ==
    /\ Returned
    /\ \E j, k \in Jobs : outcome[j] = "Failed" /\ outcome[k] = "Success"

\* C3: the value a worker returns for a job tells a failed engine call, and
\* a skipped job, from a written tile: it is never the value the same job
\* returns when it has written its tile.
C3_StatusDistinguishesOutcome ==
    \A j \in Jobs :
        outcome[j] \in {"Failed", "Skipped"} =>
            results[j] # tile_single_return(PathOf(j), sp_call("ok"))

\* C5: a job whose output path existed when the run began is finished by the
\* test of the path alone: the engine is never invoked for it, nothing is
\* written, and the file is what it was.
C5_ExistingOutputUntouched ==
    \A j \in Jobs :
        (task[j] \in {"warp", "done"} /\ PathOf(j) \in DOMAIN prev.files) =>
            /\ task[j] = "done"
            /\ results[j] = Ok(PathOf(j))
            /\ calls[j] = 0
            /\ j \notin wrote
            /\ PathOf(j) \in DOMAIN files
            /\ files[PathOf(j)] = prev.files[PathOf(j)]

C5_Witness ==
    \E j \in Jobs :
        task[j] = "done" /\ PathOf(j) \in DOMAIN prev.files /\ outcome[j] = "Skipped"

SecondRunReturned == run >= 2 /\ Returned /\ prev.returned

\* C6 (as stated): a second run with the same inputs returns the same paths,
\* skips every job, writes nothing and leaves the same files.
C6_SecondRunAllSkipped ==
    SecondRunReturned =>
        /\ tfiles = prev.tfiles
        /\ \A j \in Jobs : outcome[j] = "Skipped"
        /\ wrote = {}
        /\ files = prev.files

\* C6 (amended): a second run with the same inputs returns the same paths;
\* it skips every job whose output file the first run left, and leaves that
\* file as it was; when the first run left a file for every job, the second
\* run writes nothing and leaves the same files.
C6_SecondRunSkipsExisting ==
    SecondRunReturned =>
        /\ tfiles = prev.tfiles
        /\ \A j \in Jobs :
               PathOf(j) \in DOMAIN prev.files =>
                   /\ outcome[j] = "Skipped"
                   /\ calls[j] = 0
                   /\ j \notin wrote
                   /\ files[PathOf(j)] = prev.files[PathOf(j)]
        /\ (\A j \in Jobs : PathOf(j) \in DOMAIN prev.files) =>
               wrote = {} /\ files = prev.files

C6_Witness ==
    /\ SecondRunReturned
    /\ Len(tfiles) = 4
    /\ \A j \in Jobs : outcome[j] = "Skipped"

\* C10: a tile count below 1 makes split_extent fail with a ValueError, and
\* tile_raster raises it before any job is made and before any file is written.
C10_InvalidCountRaisedBeforeDispatch ==
    (n < 1 /\ run >= 1) =>
        /\ pc = "raised"
        /\ extents = Raise("ValueError")
        /\ args = <<>>
        /\ wrote = {}
        /\ files = NoFiles

C10_Witness == n < 1 /\ pc = "raised" /\ run >= 1

(***************************************************************************)
(* to_raster(array, savepath, crs, geometry, compress=None, navalue):      *)
(* cops is bound only when compress is given (lines 647-648), and is read  *)
(* while the arguments of driver.Create are built (lines 652-653): without *)
(* compress the call raises UnboundLocalError before any file is made.     *)
(***************************************************************************)
None == "None"

to_raster(fs, array, savepath, crs, geometry, compress, navalue) ==
    IF compress = None THEN [err |-> "UnboundLocalError", fs |-> fs]
    ELSE [err |-> "none",
          fs |-> (savepath :> [array |-> array, crs |-> crs, geometry |-> geometry,
                               navalue |-> navalue]) @@ fs]

(***************************************************************************)
(* Map_Values                                                              *)
(***************************************************************************)
\* A Python number: an int or a float.  The model counts in halves, so that
\* 10 is [t |-> "int", h |-> 20] and 0.5 is [t |-> "float", h |-> 1].
PyInt(i) == [t |-> "int", h |-> 2 * i]

PyFloat(halves) == [t |-> "float", h |-> halves]

\* a == b of two Python numbers: 10 == 10.0
NumEq(a, b) == a.h = b.h

\* the cast numpy applies to a cell: to an integer type it truncates toward
\* zero, to a float type it keeps the value
astype(x, t) ==
    IF t = "float" THEN PyFloat(x.h)
    ELSE [t |-> "int",
          h |-> IF x.h >= 0 THEN 2 * (x.h \div 2) ELSE -(2 * ((-x.h) \div 2))]

\* line 819: Map_Values(val_dict, err_val=-9999)
ValDict == (1 :> PyInt(10)) @@ (2 :> PyInt(20)) @@ (3 :> PyInt(30))

ErrVal == PyInt(-9999)

Map_Values(val_dict, err_val) == [val_dict |-> val_dict, err_val |-> err_val]

\* line 926: to_raster(new_array, dst, crs, geom, navalue=-9999)
NaValue == -9999

\* lines 950-958: the value of the key, err_val when the key is absent
map_try(self, val_dict, key) ==
    IF key \in DOMAIN val_dict THEN val_dict[key] ELSE self.err_val

\* np.vectorize(self._map_try)(val_dict, array), no otypes given: the type
\* of the output array is the type of what the function returns for the
\* first cell, and every cell's value is cast to it; an array without cells
\* raises ValueError.
vectorize_map_try(self, val_dict, array) ==
    IF Len(array) = 0 \/ Len(array[1]) = 0 THEN Raise("ValueError")
    ELSE LET otype == map_try(self, val_dict, array[1][1]).t
         IN Ok([r \in DOMAIN array |->
                  [c \in DOMAIN array[r] |->
                     astype(map_try(self, val_dict, array[r][c]), otype)]])

\* lines 882-884: os.path.join(out_folder, os.path.basename(file))
dst_file(out_folder, file) == [folder |-> out_folder, name |-> file.name]

MapFolder == "mapped"

\* gdal.Open(src) with gdal.UseExceptions() (line 32): RuntimeError on a
\* file that cannot be opened
gdal_Open(src) == IF src.readable THEN Ok(src) ELSE Raise("RuntimeError")

\* lines 879-888: the destination paths and the argument tuples
\* <<src, dst, val_dict>>
MapFiles ==
    /\ pc \in {"idle", "returned", "raised"}
    /\ run < MaxRuns
    /\ run' = run + 1
    /\ prev' = [returned |-> (pc = "returned"), tfiles |-> tfiles, files |-> files]
    /\ args' = [i \in DOMAIN src_files |->
                  <<src_files[i], dst_file(MapFolder, src_files[i]), ValDict>>]
    /\ pc' = "pool"
    /\ task' = [i \in DOMAIN args' |-> "queued"]
    /\ results' = [i \in DOMAIN args' |-> Pending]
    /\ calls' = [i \in DOMAIN args' |-> 0]
    /\ outcome' = [i \in DOMAIN args' |-> "none"]
    /\ yielded' = {}
    /\ tfiles' = <<>>
    /\ overtaken' = FALSE
    /\ wrote' = {}
    /\ UNCHANGED <<inputs, extents, files>>

\* line 919: an existing destination ends the task
MapCheck(j) ==
    /\ pc = "pool"
    /\ task[j] = "check"
    /\ IF ~exists(args[j][2], files)
       THEN /\ task' = [task EXCEPT ![j] = "open"]
            /\ UNCHANGED <<results, outcome, overtaken>>
       ELSE Finish(j, Ok(None), "Skipped")
    /\ UNCHANGED <<inputs, pc, extents, run, args, yielded, tfiles, files, calls,
                   wrote, prev>>

\* lines 920-923: the source is opened and read, outside the try block
MapOpen(j) ==
    /\ pc = "pool"
    /\ task[j] = "open"
    /\ IF gdal_Open(args[j][1]).err = "none"
       THEN /\ task' = [task EXCEPT ![j] = "write"]
            /\ UNCHANGED <<results, outcome, overtaken>>
       ELSE Finish(j, gdal_Open(args[j][1]), "Unreadable")
    /\ UNCHANGED <<inputs, pc, extents, run, args, yielded, tfiles, files, calls,
                   wrote, prev>>

\* lines 924-931: the values are mapped and written; an exception is printed
\* and the task returns None all the same
MapWrite(j) ==
    /\ pc = "pool"
    /\ task[j] = "write"
    /\ LET ds == gdal_Open(args[j][1]).val
           new_array == vectorize_map_try(Map_Values(ValDict, ErrVal), args[j][3], ds.array)
           w == IF new_array.err # "none" THEN [err |-> new_array.err, fs |-> files]
                ELSE to_raster(files, new_array.val, args[j][2], ds.crs, ds.geom, None,
                               NaValue)
       IN /\ files' = w.fs
          /\ wrote' = IF w.err = "none" THEN wrote \cup {j} ELSE wrote
          /\ Finish(j, Ok(None), IF w.err = "none" THEN "Success" ELSE "WriteFailed")
    /\ calls' = [calls EXCEPT ![j] = @ + 1]
    /\ UNCHANGED <<inputs, pc, extents, run, args, yielded, tfiles, prev>>

\* lines 891-894: the parent drains the iterator; a task's exception is
\* raised here, and leaving the with block terminates the pool
MapNext ==
    /\ pc = "pool"
    /\ \E i \in imap_next(results, yielded) :
         /\ yielded' = yielded \cup {i}
         /\ pc' = IF results[i].err = "none" THEN pc ELSE "raised"
         /\ task' = IF results[i].err = "none" THEN task
                    ELSE [j \in Jobs |-> IF task[j] = "done" THEN "done" ELSE "killed"]
    /\ UNCHANGED <<inputs, extents, run, args, results, tfiles, files, calls, outcome,
                   overtaken, wrote, prev>>

\* line 897: return dst_files
MapReturn ==
    /\ pc = "pool"
    /\ Cardinality(yielded) = Len(args)
    /\ pc' = "returned"
    /\ tfiles' = [i \in DOMAIN args |-> args[i][2]]
    /\ UNCHANGED <<inputs, extents, run, args, task, results, yielded, files, calls,
                   outcome, overtaken, wrote, prev>>

Grid == << <<1, 2>>, <<3, 255>> >>

Source(dir, name, readable) ==
    [dir |-> dir, name |-> <<name, "tif">>, readable |-> readable, array |-> Grid,
     crs |-> "EPSG:4326", geom |-> <<0, 1, 0, 2, 0, -1>>]

SrcPool == {Source("a", "x", TRUE), Source("a", "y", FALSE), Source("b", "x", TRUE)}

RECURSIVE SeqsUpTo(_, _)
SeqsUpTo(S, len) ==
    IF len = 0 THEN {<<>>}
    ELSE SeqsUpTo(S, len - 1)
             \cup {Append(q, e) : q \in {q \in SeqsUpTo(S, len - 1) : Len(q) = len - 1},
                                  e \in S}

OldRaster == [array |-> <<>>, crs |-> "", geometry |-> <<>>, navalue |-> 0]

InitMap ==
    /\ raster_file = [nx |-> 1, ny |-> 1, x0 |-> 0, dx |-> 1, y0 |-> 0, dy |-> -1]
    /\ n = 1
    /\ numpy_ragged = TRUE
    /\ src_files \in SeqsUpTo(SrcPool, MaxFiles)
    /\ fn_in = <<>>
    /\ fn_out = <<>>
    /\ ncpu \in 1..MaxCpu
    /\ pc = "idle"
    /\ extents = Ok(<<>>)
    /\ run = 0
    /\ args = <<>>
    /\ task = <<>>
    /\ results = <<>>
    /\ yielded = {}
    /\ tfiles = <<>>
    /\ \E old \in SUBSET {dst_file(MapFolder, f) : f \in SrcPool} :
           files = [p \in old |-> OldRaster]
    /\ calls = <<>>
    /\ outcome = <<>>
    /\ overtaken = FALSE
    /\ wrote = {}
    /\ prev = [returned |-> FALSE, tfiles |-> <<>>, files |-> NoFiles]

\* lines 850-857, map_file(src, dst): list() takes one argument at most, so
\* line 854 raises TypeError and _map_single is never called
list3(a, b, c) == Raise("TypeError")

MapFile ==
    /\ pc = "idle"
    /\ \E src \in SrcPool :
         /\ fn_in' = [src |-> src, dst |-> dst_file(MapFolder, src)]
         /\ fn_out' = list3(src, dst_file(MapFolder, src), ValDict)
    /\ pc' = "map_file_raised"
    /\ prev' = [returned |-> FALSE, tfiles |-> <<>>, files |-> files]
    /\ UNCHANGED <<raster_file, n, numpy_ragged, src_files, ncpu, extents, run, args,
                   task, results, yielded, tfiles, files, calls, outcome, overtaken,
                   wrote>>

NextMap ==
    \/ MapFile
    \/ MapFiles
    \/ \E j \in Jobs : PoolTake(j)
    \/ \E j \in Jobs : MapCheck(j)
    \/ \E j \in Jobs : MapOpen(j)
    \/ \E j \in Jobs : MapWrite(j)
    \/ MapNext
    \/ MapReturn

SpecMap == InitMap /\ [][NextMap]_vars

\* C4: in map_files a source that cannot be opened or mapped does not fail
\* the batch: map_files never raises, no task is killed, and when it returns
\* every file's task has run to its end.
C4_BadSourceDoesNotFailBatch ==
    /\ pc # "raised"
    /\ \A j \in Jobs : task[j] # "killed"
    /\ Returned => \A j \in Jobs : task[j] = "done"

\* C13: for a readable source and a destination that does not exist yet, the
\* mapping (map_file, and each task of map_files) writes the mapped grid as
\* a new raster at the destination, with the geotransform and the CRS of
\* the source.
MappedRasterAt(src, dst) ==
    /\ dst \in DOMAIN files
    /\ files[dst].geometry = src.geom
    /\ files[dst].crs = src.crs

C13_MapWritesGeoreferencedRaster ==
    /\ \A j \in Jobs :
         (/\ pc \in {"pool", "returned"}
          /\ task[j] = "done"
          /\ args[j][1].readable
          /\ args[j][2] \notin DOMAIN prev.files)
         => MappedRasterAt(args[j][1], args[j][2])
    /\ (/\ pc = "map_file_raised"
        /\ fn_in.src.readable
        /\ fn_in.dst \notin DOMAIN prev.files)
       => MappedRasterAt(fn_in.src, fn_in.dst)

\* C14: within one batch every task has its own output path: no two tasks
\* that are with the workers at the same time test for, create or write the
\* same destination.
C14_ConcurrentTasksOwnPaths ==
    pc = "pool" =>
        \A i, j \in Running : i # j => args[i][2] # args[j][2]

\* C15: at every moment of a batch at most ncpu jobs are with the workers,
\* no job is run more than once, and when the batch call is over every job
\* has been run (none was dropped).
AtMostNcpuRunning == pc = "pool" => Cardinality(Running) <= ncpu

NoJobRunTwice == \A j \in Jobs : calls[j] <= 1

NoJobDropped ==
    (run >= 1 /\ pc \in {"returned", "raised"}) => \A j \in Jobs : task[j] = "done"

C15_BoundedWorkersEachJobOnce ==
    /\ AtMostNcpuRunning
    /\ NoJobRunTwice
    /\ NoJobDropped

(***************************************************************************)
(* Fair scheduling: a worker that can take or carry on a job does so, and  *)
(* the parent, blocked on the iterator, takes a result that is ready.  The *)
(* caller is under no obligation to call the batch (again).                *)
(***************************************************************************)
TileProgress ==
    \/ \E j \in Jobs : PoolTake(j)
    \/ \E j \in Jobs : TileCheck(j)
    \/ \E j \in Jobs : TileWarp(j)
    \/ TileNext
    \/ TileReturn

FairSpec == Spec /\ WF_vars(TileProgress)

MapProgress ==
    \/ \E j \in Jobs : PoolTake(j)
    \/ \E j \in Jobs : MapCheck(j)
    \/ \E j \in Jobs : MapOpen(j)
    \/ \E j \in Jobs : MapWrite(j)
    \/ MapNext
    \/ MapReturn

FairSpecMap == SpecMap /\ WF_vars(MapProgress)

\* C16: under fair scheduling every batch run terminates by returning,
\* whether its jobs succeed or fail, and when it returns every job has
\* completed and is in the returned list.
C16_BatchReturnsAllAccounted ==
    (pc = "pool") ~> (/\ pc = "returned"
                      /\ \A j \in Jobs : task[j] = "done"
                      /\ Len(tfiles) = Len(args))

(***************************************************************************)
(* The output path of tile_single on its own: the jobs tile_raster builds  *)
(* for one raster and one folder differ in the chunk index only, so two    *)
(* jobs of one batch are drawn and tile_single's path computed for both.   *)
(***************************************************************************)
NameSources ==
    {[dir |-> "data", name |-> <<"dem", "tif">>],
     [dir |-> "data", name |-> <<"dem", "v2", "tif">>],
     [dir |-> "other", name |-> <<"slope", "img">>]}

NameFolders == {"tiles", "out"}

InitName ==
    /\ raster_file = [nx |-> 2, ny |-> 2, x0 |-> 0, dx |-> 1, y0 |-> 0, dy |-> -1]
    /\ n = 1
    /\ numpy_ragged = FALSE
    /\ src_files = <<>>
    /\ fn_in \in [rfile : NameSources, out_folder : NameFolders,
                   chunk : 0..MaxChunk, other : 0..MaxChunk]
    /\ fn_out = <<>>
    /\ ncpu = 1
    /\ pc = "idle"
    /\ extents = Ok(<<>>)
    /\ NoBatch

\* lines 551-555 of tile_single for the two jobs: the path only; the extent
\* (arg[0]) plays no part in it
TileName ==
    /\ pc = "idle"
    /\ pc' = "named"
    /\ fn_out' = <<outfile(<<(<<>>), fn_in.rfile, fn_in.chunk, fn_in.out_folder>>),
                   outfile(<<(<<>>), fn_in.rfile, fn_in.other, fn_in.out_folder>>)>>
    /\ UNCHANGED <<raster_file, n, numpy_ragged, src_files, fn_in, ncpu, extents, batch>>

NextName == TileName

SpecName == InitName /\ [][NextName]_vars

\* C11: the tile's path is the output folder and the name
\* {source basename}_{index}.tif with the index written as exactly two
\* digits for every index in 0..99, and two jobs of one source and one folder
\* with different indices in 0..99 never get the same path.
C11_TwoDigitNameInjective ==
    pc = "named" =>
        LET i == fn_in.chunk
            j == fn_in.other
        IN /\ fn_out[1].folder = fn_in.out_folder
           /\ i \in 0..99 =>
                  fn_out[1].name = <<fn_in.rfile.name[1], "_", i \div 10, i % 10, ".tif">>
           /\ (i \in 0..99 /\ j \in 0..99 /\ i # j) => fn_out[1] # fn_out[2]

C11_Witness ==
    /\ pc = "named"
    /\ fn_in.chunk = 7
    /\ fn_in.other = 70
    /\ fn_out[1].name = <<"dem", "_", 0, 7, ".tif">>
    /\ fn_out[2].name = <<"dem", "_", 7, 0, ".tif">>

(***************************************************************************)
(* The value mapping of _map_single on its own (line 925): a Map_Values    *)
(* object and the array read from a source are drawn, and the mapping      *)
(* applied.                                                                *)
(***************************************************************************)
\* the value maps: the integers of the scenario; floats only; an integer
\* class kept and the others given float values
ValDicts ==
    {ValDict,
     (1 :> PyFloat(1)) @@ (2 :> PyFloat(3)),
     (1 :> PyInt(1)) @@ (2 :> PyFloat(5)) @@ (3 :> PyFloat(-3))}

ErrVals == {ErrVal, PyFloat(-1)}

CellValues == {1, 2, 3, 255}

Arrays == [1..2 -> [1..2 -> CellValues]] \cup [1..1 -> [1..2 -> CellValues]]

InitValues ==
    /\ raster_file = [nx |-> 2, ny |-> 2, x0 |-> 0, dx |-> 1, y0 |-> 0, dy |-> -1]
    /\ n = 1
    /\ numpy_ragged = FALSE
    /\ src_files = <<>>
    /\ fn_in \in [val_dict : ValDicts, err_val : ErrVals, array : Arrays]
    /\ fn_out = <<>>
    /\ ncpu = 1
    /\ pc = "idle"
    /\ extents = Ok(<<>>)
    /\ NoBatch

\* line 925: new_array = np.vectorize(self._map_try)(val_dict, array)
MapValues ==
    /\ pc = "idle"
    /\ pc' = "mapped"
    /\ fn_out' = vectorize_map_try(Map_Values(fn_in.val_dict, fn_in.err_val),
                                   fn_in.val_dict, fn_in.array)
    /\ UNCHANGED <<raster_file, n, numpy_ragged, src_files, fn_in, ncpu, extents, batch>>

NextValues == MapValues

SpecValues == InitValues /\ [][NextValues]_vars

\* C12: the mapping is exact cell by cell: the output has the shape of the
\* source; a cell whose value is a key of the value map holds the mapped
\* value, any other cell (a no-data cell too) holds err_val; the grid
\* [[1,2],[3,255]] with {1:10, 2:20, 3:30} and -9999 gives
\* [[10,20],[30,-9999]].
C12_MappingCellwiseExact ==
    pc = "mapped" =>
        /\ fn_out.err = "none"
        /\ DOMAIN fn_out.val = DOMAIN fn_in.array
        /\ \A r \in DOMAIN fn_in.array :
             /\ DOMAIN fn_out.val[r] = DOMAIN fn_in.array[r]
             /\ \A c \in DOMAIN fn_in.array[r] :
                  LET key == fn_in.array[r][c]
                  IN IF key \in DOMAIN fn_in.val_dict
                     THEN NumEq(fn_out.val[r][c], fn_in.val_dict[key])
                     ELSE NumEq(fn_out.val[r][c], fn_in.err_val)

\* the scenario of the specification, which the code maps as stated
ScenarioMapped ==
    (/\ pc = "mapped"
     /\ fn_in = [val_dict |-> ValDict, err_val |-> ErrVal,
                 array |-> << <<1, 2>>, <<3, 255>> >>])
    => /\ fn_out.err = "none"
       /\ \A r, c \in 1..2 :
            NumEq(fn_out.val[r][c],
                  << <<PyInt(10), PyInt(20)>>, <<PyInt(30), PyInt(-9999)>> >>[r][c])

(***************************************************************************)
(* warp and rasterize, each called once on a file system that holds        *)
(* nothing, a file or a directory at dst.  A path's content is             *)
(* [kind, by, whole, options]: a file or a directory, who wrote it, whether*)
(* it was written to the end, and the options it was written with.         *)
(***************************************************************************)
isfile(path, fs) == fs[path].kind = "file"

\* os.remove(dst) of a file, shutil.rmtree(dst) of a directory
os_remove(fs, path) == [q \in DOMAIN fs \ {path} |-> fs[q]]

shutil_rmtree(fs, path) == [q \in DOMAIN fs \ {path} |-> fs[q]]

\* Variants of the block below: one removes what exists without looking at
\* the flag, one never removes.
always_overwrite(fs, dst, overwrite) ==
    IF exists(dst, fs)
    THEN [returned |-> FALSE,
          fs |-> IF isfile(dst, fs) THEN os_remove(fs, dst) ELSE shutil_rmtree(fs, dst)]
    ELSE [returned |-> FALSE, fs |-> fs]

never_overwrite(fs, dst, overwrite) ==
    IF exists(dst, fs) THEN [returned |-> TRUE, fs |-> fs]
    ELSE [returned |-> FALSE, fs |-> fs]

\* lines 187-196 of rasterize, 730-739 of warp: an existing dst is removed
\* under overwrite, and ends the call otherwise
overwrite_existing(fs, dst, overwrite) ==
    IF exists(dst, fs)
    THEN IF overwrite
         THEN [returned |-> FALSE,
               fs |-> IF isfile(dst, fs) THEN os_remove(fs, dst)
                      ELSE shutil_rmtree(fs, dst)]
         ELSE [returned |-> TRUE, fs |-> fs]
    ELSE [returned |-> FALSE, fs |-> fs]

\* the keyword arguments gdal.WarpOptions knows, of those the model uses
WarpOptionNames ==
    {"dstSRS", "dstNodata", "srcSRS", "outputBounds", "xRes", "yRes", "outputType",
     "callback", "creationOptions"}

\* gdal_options(module, **kwargs): the options object; None after printing
\* the documentation when the module is unknown (KeyError), when there are
\* no keyword arguments (AssertionError), or when the method does not take
\* one of them (TypeError)
NoOptions == [module |-> None, kwargs |-> {}]

gdal_options(module, kwargs) ==
    IF module # "warp" THEN NoOptions
    ELSE IF kwargs = {} THEN NoOptions
    ELSE IF kwargs \subseteq WarpOptionNames THEN [module |-> module, kwargs |-> kwargs]
    ELSE NoOptions

\* gdal.Warp(dst, src, options=ops): unpacking options=None raises
\* TypeError; a warp GDAL cannot carry out raises RuntimeError, with or
\* without a partly written dst
gdal_Warp(fs, dst, src, ops, o) ==
    IF ops = NoOptions THEN [err |-> "TypeError", fs |-> fs]
    ELSE IF o = "fail" THEN [err |-> "RuntimeError", fs |-> fs]
    ELSE [err |-> IF o = "ok" THEN "none" ELSE "RuntimeError",
          fs |-> (dst :> [kind |-> "file", by |-> "warp", whole |-> (o = "ok"),
                          options |-> ops.kwargs]) @@ fs]

\* the keys of GDAL_TYPEMAP (lines 48-59)
GDAL_TYPEMAP ==
    {"byte", "cfloat32", "cfloat64", "cint16", "cint32", "float32", "float64", "int16",
     "int32", "uint16", "uint32", "unknown"}

\* lines 742-749: a dtype string that is a key becomes the GDAL type; one
\* that is not a key is reported and stays a string, which WarpOptions does
\* not take as outputType.  dtype is the string after lower() and
\* replace("gdt_", "").
outputType(dtype) == IF dtype \in GDAL_TYPEMAP THEN "outputType" ELSE "outputType=str"

\* lines 730-790 of warp; opened tells whether gdal.Open(src) was called.
\* template is <<>> for None and <<file>> for a path.
warp(fs, src, dst, dtype, template, overwrite, compress, kwargs, o) ==
    LET ow == overwrite_existing(fs, dst, overwrite)
    IN IF ow.returned THEN [err |-> "none", fs |-> ow.fs, opened |-> FALSE]
       ELSE IF template # <<>> /\ gdal_Open(template[1]).err # "none"
       THEN [err |-> gdal_Open(template[1]).err, fs |-> ow.fs, opened |-> FALSE]
       ELSE IF template = <<>> /\ kwargs = {}
       THEN [err |-> "none", fs |-> ow.fs, opened |-> FALSE]
       ELSE IF gdal_Open(src).err # "none"
       THEN [err |-> gdal_Open(src).err, fs |-> ow.fs, opened |-> TRUE]
       ELSE LET from_template ==
                    IF template # <<>>
                    THEN {"dstSRS", "outputBounds", "xRes", "yRes", outputType(dtype)}
                    ELSE {}
                creation == IF compress # None THEN {"creationOptions"} ELSE {}
                ops == gdal_options("warp", kwargs \cup from_template
                                                \cup {"srcSRS", "callback"} \cup creation)
                w == gdal_Warp(ow.fs, dst, src, ops, o)
            IN [err |-> w.err, fs |-> w.fs, opened |-> TRUE]

\* ogr.Open(src): an exception when OGR raises, None otherwise, and then
\* src_data.GetLayer() raises AttributeError (line 200)
ogr_Open_GetLayer(src, ogr_exceptions) ==
    IF src.readable THEN Ok(src)
    ELSE IF ogr_exceptions THEN Raise("RuntimeError")
    ELSE Raise("AttributeError")

\* lines 187-244 of rasterize: driver.Create makes dst, RasterizeLayer
\* burns the layer into it
rasterize(fs, src, dst, overwrite, ogr_exceptions, o) ==
    LET ow == overwrite_existing(fs, dst, overwrite)
    IN IF ow.returned THEN [err |-> "none", fs |-> ow.fs, opened |-> FALSE]
       ELSE IF ogr_Open_GetLayer(src, ogr_exceptions).err # "none"
       THEN [err |-> ogr_Open_GetLayer(src, ogr_exceptions).err, fs |-> ow.fs,
             opened |-> TRUE]
       ELSE IF o = "fail" THEN [err |-> "RuntimeError", fs |-> ow.fs, opened |-> TRUE]
       ELSE [err |-> IF o = "ok" THEN "none" ELSE "RuntimeError",
             fs |-> (dst :> [kind |-> "file", by |-> "rasterize", whole |-> (o = "ok"),
                             options |-> {}]) @@ ow.fs,
             opened |-> TRUE]

WarpDst == [folder |-> "out", name |-> <<"warped", "tif">>]

WarpSources == {Source("a", "x", TRUE), Source("a", "y", FALSE)}

Templates == {<<>>, <<Source("t", "grid", TRUE)>>, <<Source("t", "gone", FALSE)>>}

\* the keyword arguments of the call: none, warp options, a misspelled one
Kwargs == SUBSET {"dstSRS", "dstNodata", "dstSrs"}

\* the default "Float32", and a name that is no GDAL type
Dtypes == {"float32", "float"}

OldFile == [kind |-> "file", by |-> "old", whole |-> TRUE, options |-> {}]

OldDir == [kind |-> "dir", by |-> "old", whole |-> TRUE, options |-> {}]

InitWarp ==
    /\ raster_file = [nx |-> 2, ny |-> 2, x0 |-> 0, dx |-> 1, y0 |-> 0, dy |-> -1]
    /\ n = 1
    /\ numpy_ragged = FALSE
    /\ src_files = <<>>
    /\ fn_in \in [src : WarpSources, dst : {WarpDst}, dtype : Dtypes, template : Templates,
                   overwrite : BOOLEAN, compress : {None, "LZW"}, kwargs : Kwargs,
                   ogr_exceptions : BOOLEAN, engine : EngineOutcomes]
    /\ fn_out = <<>>
    /\ ncpu = 1
    /\ pc = "idle"
    /\ extents = Ok(<<>>)
    /\ run = 0
    /\ args = <<>>
    /\ task = <<>>
    /\ results = <<>>
    /\ yielded = {}
    /\ tfiles = <<>>
    /\ files \in {NoFiles, WarpDst :> OldFile, WarpDst :> OldDir}
    /\ calls = <<>>
    /\ outcome = <<>>
    /\ overtaken = FALSE
    /\ wrote = {}
    /\ prev = [returned |-> FALSE, tfiles |-> <<>>, files |-> NoFiles]

Called(fn, r) ==
    /\ pc = "idle"
    /\ pc' = "called"
    /\ fn_out' = [fn |-> fn, err |-> r.err, opened |-> r.opened]
    /\ files' = r.fs
    /\ prev' = [returned |-> FALSE, tfiles |-> <<>>, files |-> files]
    /\ UNCHANGED <<raster_file, n, numpy_ragged, src_files, fn_in, ncpu, extents, run,
                   args, task, results, yielded, tfiles, calls, outcome, overtaken,
                   wrote>>

Warp ==
    Called("warp", warp(files, fn_in.src, fn_in.dst, fn_in.dtype, fn_in.template,
                        fn_in.overwrite, fn_in.compress, fn_in.kwargs, fn_in.engine))

Rasterize ==
    Called("rasterize", rasterize(files, fn_in.src, fn_in.dst, fn_in.overwrite,
                                  fn_in.ogr_exceptions, fn_in.engine))

NextWarp ==
    \/ Warp
    \/ Rasterize

SpecWarp == InitWarp /\ [][NextWarp]_vars

WarpCalled == pc = "called" /\ fn_out.fn = "warp"

\* the call returned, and dst is a file that this call of warp wrote whole
DstWritten ==
    /\ fn_out.err = "none"
    /\ fn_in.dst \in DOMAIN files
    /\ files[fn_in.dst].kind = "file"
    /\ files[fn_in.dst].by = "warp"
    /\ files[fn_in.dst].whole

C18_NoClobberWithoutOverwrite ==
    pc = "called" =>
        /\ (fn_in.dst \in DOMAIN prev.files /\ ~fn_in.overwrite) =>
               /\ fn_out.err = "none"
               /\ ~fn_out.opened
               /\ files = prev.files
        /\ (fn_out.fn = "warp" /\ fn_in.template = <<>> /\ fn_in.kwargs = {}) =>
               /\ fn_out.err = "none"
               /\ ~fn_out.opened
               /\ fn_in.dst \in DOMAIN files =>
                      (fn_in.dst \in DOMAIN prev.files
                       /\ files[fn_in.dst] = prev.files[fn_in.dst])

C18_Witness ==
    /\ pc = "called"
    /\ fn_out.fn = "rasterize"
    /\ ~fn_in.overwrite
    /\ fn_in.src.readable
    /\ fn_in.engine = "ok"
    /\ prev.files = (WarpDst :> OldFile)
    /\ files = prev.files
    /\ ~fn_out.opened

====
